---- MODULE Spec2Model ----
(***************************************************************************)
(* NextTokenLM (allennlp/models/next_token_lm.py): construction, forward   *)
(* and get_metrics, as a state machine over one model instance.            *)
(*                                                                         *)
(* Tensors are records [shape, data]: shape is the sequence of dimension   *)
(* sizes, data the elements in row-major order, so that view() is a change *)
(* of shape over the same data, as in torch.  Floating point values are    *)
(* modelled by integers: Exp is 2^x and Log its integer inverse, so that   *)
(* softmax is an exact fraction <<numerator, denominator>>.                *)
(***************************************************************************)
EXTENDS Integers, Sequences, FiniteSets

\* ---------------------------------------------------------------- bounds
MaxBatch == 2
MaxSeqLen == 2
MaxDim == 2
MaxObs == 2

\* ------------------------------------------------------- optional values
None == {}
Some(x) == {x}
Get(o) == CHOOSE x \in o : TRUE

\* ------------------------------------------------------------ arithmetic
Max(S) == CHOOSE x \in S : \A y \in S : y <= x

Min2(a, b) == IF a <= b THEN a ELSE b

RECURSIVE Prod(_)
Prod(s) == IF s = <<>> THEN 1 ELSE Head(s) * Prod(Tail(s))

RECURSIVE Sum(_)
Sum(s) == IF s = <<>> THEN 0 ELSE Head(s) + Sum(Tail(s))

Exp(x) == 2 ^ x

RECURSIVE Log(_)
Log(n) == IF n <= 1 THEN 0 ELSE 1 + Log(n \div 2)

\* --------------------------------------------------------------- tensors
\* AsSeq(f) is the sequence f itself, written as a concatenation so that the
\* elements are computed once, when the sequence is built.
AsSeq(f) == f \o <<>>

Tensor(shape, data) == [shape |-> shape, data |-> AsSeq(data)]

Numel(t) == Prod(t.shape)

Front(s) == SubSeq(s, 1, Len(s) - 1)

Last(s) == s[Len(s)]

\* torch.Tensor.view: the same data under another shape; fails when the
\* element counts differ.
CanView(t, shape) == Prod(shape) = Numel(t)

View(t, shape) == Tensor(shape, t.data)

\* torch.arange(0, n).long().unsqueeze(1): shape (n, 1), values 0 .. n-1.
ArangeUnsqueeze(n) == Tensor(<<n, 1>>, [i \in 1..n |-> i - 1])

\* t[index, pos] for a 3-D t, an integer index tensor and an integer pos:
\* advanced indexing broadcasts index with the scalar pos, so the result
\* has shape index.shape + (t.shape[2],); a negative pos counts from the end.
IndexSelect(t, index, pos) ==
    LET T == t.shape[2]
        D == t.shape[3]
        p == IF pos < 0 THEN pos + T ELSE pos
        n == Numel(index)
    IN Tensor(index.shape \o <<D>>,
              [j \in 1..(n * D) |->
                  LET i == ((j - 1) \div D) + 1
                      d == ((j - 1) % D) + 1
                  IN t.data[(index.data[i] * T + p) * D + d]])

\* torch.nn.Dropout in training mode: every element is zeroed where the
\* noise says so and scaled by 1 / (1 - rate) elsewhere; rate is in percent.
KeepAt(noise, i) == noise = "keep" \/ i % 2 = 1

Dropout(rate, noise, x) ==
    IF rate = 0 THEN x
    ELSE Tensor(x.shape,
                [i \in 1..Numel(x) |->
                    IF KeepAt(noise, i) THEN (x.data[i] * 100) \div (100 - rate)
                    ELSE 0])

\* torch.nn.Linear applied over the last dimension.
RECURSIVE Dot(_, _, _, _)
Dot(w, x, off, e) ==
    IF e = 0 THEN 0 ELSE w[e] * x[off + e] + Dot(w, x, off, e - 1)

Linear(head, x) ==
    LET in == head.in_features
        out == head.out_features
        rows == Numel(x) \div in
    IN Tensor(Front(x.shape) \o <<out>>,
              [j \in 1..(rows * out) |->
                  LET r == (j - 1) \div out
                      v == ((j - 1) % out) + 1
                  IN Dot(head.weight[v], x.data, r * in, in) + head.bias[v]])

\* torch.nn.functional.softmax over the last dimension: element v of a row
\* is Exp(logit v) over the row's sum of Exp.
RowOf(t, r) ==
    LET V == Last(t.shape) IN SubSeq(t.data, (r - 1) * V + 1, r * V)

RowSumExp(row) == Sum(AsSeq([v \in 1..Len(row) |-> Exp(row[v])]))

Softmax(t) ==
    LET V == Last(t.shape)
        sums == AsSeq([r \in 1..(Numel(t) \div V) |-> RowSumExp(RowOf(t, r))])
    IN Tensor(t.shape,
              [j \in 1..Numel(t) |-> <<Exp(t.data[j]), sums[((j - 1) \div V) + 1]>>])

\* torch.topk over the last dimension of a tensor of fractions with a common
\* denominator per row: the k largest, largest first; among equal values the
\* lower index first.  Indices are 0-based vocabulary ids.
Before(row, v, w) ==
    \/ row[v][1] > row[w][1]
    \/ row[v][1] = row[w][1] /\ v < w

\* The descending order of a row: position c holds the element that c - 1
\* others come before.
TopKOrder(row, k) ==
    LET V == Len(row)
        place == AsSeq([v \in 1..V |->
                           Cardinality({w \in 1..V : Before(row, w, v)}) + 1])
    IN AsSeq([c \in 1..k |-> CHOOSE v \in 1..V : place[v] = c])

TopK(t, k) ==
    LET V == Last(t.shape)
        rows == Numel(t) \div V
        order == AsSeq([r \in 1..rows |-> TopKOrder(RowOf(t, r), k)])
        shape == Front(t.shape) \o <<k>>
    IN [values |-> Tensor(shape,
                          [j \in 1..(rows * k) |->
                              t.data[((j - 1) \div k) * V + order[((j - 1) \div k) + 1][((j - 1) % k) + 1]]]),
        indices |-> Tensor(shape,
                           [j \in 1..(rows * k) |->
                               order[((j - 1) \div k) + 1][((j - 1) % k) + 1] - 1])]

\* torch.nn.functional.cross_entropy(logits (N, V), targets (N,)): the mean
\* over the rows of log(sum of exp) - logit[target]; a target outside
\* [0, V) is an error.
TargetsInRange(logits, targets) ==
    \A i \in 1..Numel(targets) :
        targets.data[i] >= 0 /\ targets.data[i] < logits.shape[2]

CrossEntropy(logits, targets) ==
    LET N == logits.shape[1]
        nll == AsSeq([r \in 1..N |->
                         Log(RowSumExp(RowOf(logits, r)))
                             - RowOf(logits, r)[targets.data[r] + 1]])
    IN Sum(nll) \div N

\* --------------------------------------------------------- collaborators
\* Vocabulary.get_vocab_size(namespace).
Vocab == [bert |-> 21, tokens |-> 3]

GetVocabSize(vocab, namespace) == vocab[namespace]

\* TextFieldEmbedder: maps a TokenBatch to a (batch, tokens, output_dim)
\* tensor; id 0 is padding and embeds to the zero vector.
EmbedId(id, d) == IF id = 0 THEN 0 ELSE ((id + d) % 2) + 1

TextFieldEmbedder(embedder, tokens) ==
    LET any == tokens[CHOOSE n \in DOMAIN tokens : TRUE]
        E == embedder.output_dim
    IN Tensor(any.shape \o <<E>>,
              [j \in 1..(Numel(any) * E) |->
                  LET pos == ((j - 1) \div E) + 1
                      d == ((j - 1) % E) + 1
                  IN Max({EmbedId(tokens[n].data[pos], d) : n \in DOMAIN tokens})])

\* util.get_text_field_mask applied to the embedding tensor: 1 where the
\* position's vector is not all zero.
GetTextFieldMask(embeddings) ==
    LET E == embeddings.shape[3]
    IN Tensor(Front(embeddings.shape),
              [pos \in 1..(embeddings.shape[1] * embeddings.shape[2]) |->
                  IF \E d \in 1..E : embeddings.data[(pos - 1) * E + d] # 0
                  THEN 1 ELSE 0])

\* Seq2SeqEncoder: (batch, tokens, input_dim) -> (batch, tokens, output_dim);
\* a left-to-right encoder (running maximum over the unmasked positions so
\* far) that outputs zero at masked positions.
Seq2SeqEncoder(encoder, embeddings, mask) ==
    LET B == embeddings.shape[1]
        T == embeddings.shape[2]
        in == encoder.input_dim
        out == encoder.output_dim
    IN Tensor(<<B, T, out>>,
              [j \in 1..(B * T * out) |->
                  LET pos == ((j - 1) \div out) + 1
                      d == ((j - 1) % out) + 1
                      b == (pos - 1) \div T
                      t == ((pos - 1) % T) + 1
                      e == ((d - 1) % in) + 1
                  IN IF mask.data[pos] = 0 THEN 0
                     ELSE Max({embeddings.data[(b * T + s - 1) * in + e] :
                                  s \in {s \in 1..t : mask.data[b * T + s] = 1}})])

\* check_dimensions_match raises ConfigurationError when the two differ.
DimensionsMatch(dim_1, dim_2) == dim_1 = dim_2

\* Perplexity (an Average of the losses, exponentiated on reading).
NewPerplexity == [total_value |-> 0, count |-> 0]

PerplexityCall(metric, loss) ==
    [total_value |-> metric.total_value + loss.data[1], count |-> metric.count + 1]

PerplexityGetMetric(metric, reset) ==
    [value |-> IF metric.count = 0 THEN 0
               ELSE Exp(metric.total_value \div metric.count),
     metric |-> IF reset THEN NewPerplexity ELSE metric]

\* torch.nn.Linear(in_features, out_features) with its initial parameters.
NewLinear(in, out) ==
    [in_features |-> in,
     out_features |-> out,
     weight |-> AsSeq([v \in 1..out |-> AsSeq([e \in 1..in |-> (v * e) % 3])]),
     bias |-> AsSeq([v \in 1..out |-> v % 2])]

\* InitializerApplicator: sets every weight of the head to 1 and every bias
\* to 0.
ApplyInitializer(head) ==
    [head EXCEPT !.weight = AsSeq([v \in 1..head.out_features |->
                                      AsSeq([e \in 1..head.in_features |-> 1])]),
                 !.bias = AsSeq([v \in 1..head.out_features |-> 0])]

\* ---------------------------------------------------------- construction
VARIABLES built, text_field_embedder, contextualizer, language_model_head,
          perplexity, dropout, window, last

vars == <<built, text_field_embedder, contextualizer, language_model_head,
          perplexity, dropout, window, last>>

\* The fields of the instance that forward reads.
Self ==
    [text_field_embedder |-> text_field_embedder,
     contextualizer |-> contextualizer,
     language_model_head |-> language_model_head,
     perplexity |-> perplexity,
     dropout |-> dropout]

\* Mutant of SoftmaxDim: the embedder's dimension whatever the contextualizer.
SoftmaxDimEmbedder(embedder, encoder) == embedder.output_dim

\* __init__, lines 27-32: the input dimension of the head.
SoftmaxDim(embedder, encoder) ==
    IF encoder # None THEN Get(encoder).output_dim ELSE embedder.output_dim

\* __init__, lines 27-30: the check made when a contextualizer is given.
InitRaises(embedder, encoder) ==
    /\ encoder # None
    /\ ~DimensionsMatch(embedder.output_dim, Get(encoder).input_dim)

\* __init__, lines 33-34 and 38-39; initializer is None or Some.
LanguageModelHead(embedder, encoder, target_namespace, initializer) ==
    LET head == NewLinear(SoftmaxDim(embedder, encoder),
                          GetVocabSize(Vocab, target_namespace))
    IN IF initializer # None THEN ApplyInitializer(head) ELSE head

\* --------------------------------------------------------------- forward
TopKCap == 20

\* Mutant of Raise: the call is counted as an observation before it fails.
RaiseCounted(error, line, embedded, metric) ==
    [status |-> error, line |-> line, embedded |-> embedded, output |-> None,
     perplexity |-> [metric EXCEPT !.count = @ + 1], locals |-> None]

\* The outcome of a call that raised at a line: no output; the accumulator
\* as given.
Raise(error, line, embedded, metric) ==
    [status |-> error, line |-> line, embedded |-> embedded, output |-> None,
     perplexity |-> metric, locals |-> None]

\* Lines 57-61.
ContextualEmbeddings(self, embeddings) ==
    IF self.contextualizer # None
    THEN Seq2SeqEncoder(Get(self.contextualizer), embeddings,
                        GetTextFieldMask(embeddings))
    ELSE embeddings

\* Mutant of FinalEmbeddings: the first position instead of the last.
FinalEmbeddingsFirst(contextual_embeddings, batch_size) ==
    IndexSelect(contextual_embeddings, ArangeUnsqueeze(batch_size), 0)

\* Lines 63-64: contextual_embeddings[batch_index, -1] with batch_index of
\* shape (batch_size, 1).
FinalEmbeddings(contextual_embeddings, batch_size) ==
    IndexSelect(contextual_embeddings, ArangeUnsqueeze(batch_size), -1)

\* Line 70.
TopKSize(vocab_size) == Min2(vocab_size, TopKCap)

\* Line 73, and line 80 when there is a loss.
OutputDict(top, loss) ==
    [key \in {"top_probs", "top_indices"} \cup (IF loss = None THEN {} ELSE {"loss"}) |->
        CASE key = "top_probs" -> top.values
          [] key = "top_indices" -> top.indices
          [] OTHER -> Get(loss)]

\* Mutant of Observe: the loss is fed twice.
ObserveTwice(self, loss) ==
    PerplexityCall(PerplexityCall(self.perplexity, loss), loss)

\* Line 79: self._perplexity(loss).
Observe(self, loss) == PerplexityCall(self.perplexity, loss)

\* Lines 76-80, for target_ids a tensor: the two views, the loss, the
\* accumulator update.
ForwardLoss(self, target_logits, target_ids, batch_size, vocab_size, top, locals) ==
    IF ~CanView(target_logits, <<batch_size, vocab_size>>)
    THEN Raise("RuntimeError", 76, TRUE, self.perplexity)
    ELSE IF ~CanView(target_ids, <<batch_size>>)
    THEN Raise("RuntimeError", 77, TRUE, self.perplexity)
    ELSE LET logits == View(target_logits, <<batch_size, vocab_size>>)
             targets == View(target_ids, <<batch_size>>)
         IN IF ~TargetsInRange(logits, targets)
            THEN Raise("IndexError", 78, TRUE, self.perplexity)
            ELSE LET loss == Tensor(<<>>, <<CrossEntropy(logits, targets)>>)
                 IN [status |-> "ok", line |-> 82, embedded |-> TRUE,
                     output |-> Some(OutputDict(top, Some(loss))),
                     perplexity |-> Observe(self, loss),
                     locals |-> locals]

\* Lines 54-82, for target_ids as line 47 leaves it: None or Some(tensor).
ForwardBody(self, tokens, target_ids, batch_size, noise) ==
    LET embeddings == TextFieldEmbedder(self.text_field_embedder, tokens)
        contextual_embeddings == ContextualEmbeddings(self, embeddings)
        final_embeddings == FinalEmbeddings(contextual_embeddings, batch_size)
        target_logits == Linear(self.language_model_head,
                                Dropout(self.dropout, noise, final_embeddings))
        vocab_size == Last(target_logits.shape)
        probs == Softmax(target_logits)
        top == TopK(probs, TopKSize(vocab_size))
        locals == Some([contextual_embeddings |-> contextual_embeddings,
                        final_embeddings |-> final_embeddings,
                        probs |-> probs])
    IN IF target_ids # None
       THEN ForwardLoss(self, target_logits, Get(target_ids), batch_size,
                        vocab_size, top, locals)
       ELSE [status |-> "ok", line |-> 82, embedded |-> TRUE,
             output |-> Some(OutputDict(top, None)),
             perplexity |-> self.perplexity,
             locals |-> locals]

\* Mutant of TargetIndexersRaise: only the empty dict is refused.
TargetIndexersRaiseEmpty(target_ids) == Cardinality(DOMAIN target_ids) = 0

\* Line 45, for target_ids a dict.
TargetIndexersRaise(target_ids) == Cardinality(DOMAIN target_ids) # 1

\* Lines 45-51, then the rest.  The argument target_ids is None or
\* Some(dict): len(None) at line 45 is a TypeError.  Line 47 rebinds
\* target_ids to the dict's first value, so the tests for None at lines 49
\* and 75 are made on a tensor.  tokens['tokens'] at line 48 is a KeyError
\* when the batch has no indexer of that name.
forward(self, tokens, target_ids, noise) ==
    IF target_ids = None
    THEN Raise("TypeError", 45, FALSE, self.perplexity)
    ELSE IF TargetIndexersRaise(Get(target_ids))
    THEN Raise("ValueError", 46, FALSE, self.perplexity)
    ELSE LET dict == Get(target_ids)
             targets == Some(dict[CHOOSE n \in DOMAIN dict : TRUE])
         IN IF "tokens" \notin DOMAIN tokens
            THEN Raise("KeyError", 48, FALSE, self.perplexity)
            ELSE LET batch_size == tokens["tokens"].shape[1]
                 IN IF targets # None /\ Get(targets).shape[1] # batch_size
                    THEN Raise("ValueError", 50, FALSE, self.perplexity)
                    ELSE ForwardBody(self, tokens, targets, batch_size, noise)

\* Mutant of get_metrics: the reset flag is not passed on.
get_metrics_keep(self, reset) == PerplexityGetMetric(self.perplexity, FALSE)

\* Lines 84-85.
get_metrics(self, reset) == PerplexityGetMetric(self.perplexity, reset)

\* ---------------------------------------------------------------- inputs
IndexerNames == {"tokens", "bert"}

Dims == 1..MaxDim

DropoutRates == {0, 50}

Initializers == {None, Some("constant")}

Embedders == {[output_dim |-> d] : d \in Dims}

Encoders ==
    {None} \cup {Some([input_dim |-> i, output_dim |-> o]) : i \in Dims, o \in Dims}

\* A row of token ids for batch element b: no padding, padding at the last
\* position, padding before the last position, or padding only.
TokenRow(pattern, b, T) ==
    [t \in 1..T |->
        CASE pattern = "full" -> b
          [] pattern = "padded" -> IF t < T THEN b ELSE 0
          [] pattern = "late" -> IF t = T THEN b ELSE 0
          [] OTHER -> 0]

RowPatterns == {"full", "padded", "late", "empty"}

TokenTensor(B, T, pattern) ==
    Tensor(<<B, T>>,
           [j \in 1..(B * T) |->
               TokenRow(pattern, ((j - 1) \div T) + 1, T)[((j - 1) % T) + 1]])

TokenTensors ==
    {TokenTensor(B, T, pattern) :
        B \in 1..MaxBatch, T \in 1..MaxSeqLen, pattern \in RowPatterns}

Dict(names, x) == [n \in names |-> x]

\* Token batches: one indexer named "tokens" over every tensor; one indexer
\* of another name, two indexers, and no indexer at all.
TokenBatches ==
    {Dict({"tokens"}, x) : x \in TokenTensors}
        \cup {Dict(names, TokenTensor(B, MaxSeqLen, "full")) :
                names \in {{"bert"}, IndexerNames}, B \in 1..MaxBatch}
        \cup {Dict({}, 0)}

\* Target tensors: 1-D, (batch, 1) and (batch, 2); ids in the vocabulary, and
\* the id vocab_size, which is outside it.
TargetTensor(B, kind, ids, vocab_size) ==
    LET shape == CASE kind = "flat" -> <<B>>
                   [] kind = "column" -> <<B, 1>>
                   [] OTHER -> <<B, 2>>
    IN Tensor(shape,
              [j \in 1..Prod(shape) |->
                  CASE ids = "first" -> (j - 1) % vocab_size
                    [] ids = "last" -> vocab_size - 1
                    [] OTHER -> vocab_size])

TargetKinds ==
    {<<"flat", "first">>, <<"flat", "last">>, <<"flat", "outside">>,
     <<"column", "last">>, <<"wide", "first">>}

TargetTensors(vocab_size) ==
    {TargetTensor(B, c[1], c[2], vocab_size) : B \in 1..MaxBatch, c \in TargetKinds}

TargetBatches(vocab_size) ==
    {None, Some(Dict({}, 0))}
        \cup {Some(Dict({"bert"}, x)) : x \in TargetTensors(vocab_size)}
        \cup {Some(Dict(IndexerNames, TargetTensor(B, "flat", "last", vocab_size))) :
                B \in 1..MaxBatch}

Noises(rate) == IF rate = 0 THEN {"keep"} ELSE {"keep", "alternate"}

\* The sequence specification draws from a smaller input space: one
\* vocabulary, no initializer, a contextualizer of one shape, six target
\* batches.
SeqEncoders == {None, Some([input_dim |-> MaxDim, output_dim |-> 1])}

SeqNoises(rate) == IF rate = 0 THEN {"keep"} ELSE {"alternate"}

SeqTokenBatches ==
    {Dict({"tokens"}, TokenTensor(B, MaxSeqLen, "full")) : B \in 1..MaxBatch}
        \cup {Dict({"bert"}, TokenTensor(1, MaxSeqLen, "full"))}

SeqTargetBatches(vocab_size) ==
    {None, Some(Dict(IndexerNames, TargetTensor(1, "flat", "last", vocab_size)))}
        \cup {Some(Dict({"bert"}, TargetTensor(1, c[1], c[2], vocab_size))) :
                c \in {<<"flat", "last">>, <<"flat", "outside">>, <<"wide", "first">>}}
        \cup {Some(Dict({"bert"}, TargetTensor(MaxBatch, "flat", "first", vocab_size)))}

\* --------------------------------------------------------------- actions
NoCall == [op |-> "none"]

Init ==
    /\ built = FALSE
    /\ text_field_embedder = None
    /\ contextualizer = None
    /\ language_model_head = None
    /\ perplexity = None
    /\ dropout = 0
    /\ window = <<>>
    /\ last = NoCall

\* NextTokenLM(vocab, text_field_embedder, contextualizer, target_namespace,
\* dropout, initializer): lines 17-39.
Construct(embedder, encoder, target_namespace, rate, initializer) ==
    /\ ~built
    /\ IF InitRaises(embedder, encoder)
       THEN /\ last' = [op |-> "construct", status |-> "ConfigurationError",
                        embedder |-> embedder, encoder |-> encoder,
                        target_namespace |-> target_namespace, rate |-> rate,
                        initializer |-> initializer]
            /\ UNCHANGED <<built, text_field_embedder, contextualizer,
                           language_model_head, perplexity, dropout, window>>
       ELSE /\ built' = TRUE
            /\ text_field_embedder' = embedder
            /\ contextualizer' = encoder
            /\ language_model_head' =
                   LanguageModelHead(embedder, encoder, target_namespace, initializer)
            /\ perplexity' = NewPerplexity
            /\ dropout' = rate
            /\ window' = <<>>
            /\ last' = [op |-> "construct", status |-> "ok",
                        embedder |-> embedder, encoder |-> encoder,
                        target_namespace |-> target_namespace, rate |-> rate,
                        initializer |-> initializer]

\* One call of forward.  window records the losses fed to the accumulator
\* since the last reset.
Forward(tokens, target_ids, noise) ==
    /\ built
    /\ perplexity.count < MaxObs
    /\ LET r == forward(Self, tokens, target_ids, noise)
       IN /\ perplexity' = r.perplexity
          /\ window' = IF r.status = "ok" /\ "loss" \in DOMAIN Get(r.output)
                       THEN Append(window, Get(r.output)["loss"].data[1])
                       ELSE window
          /\ last' = [op |-> "forward", status |-> r.status, line |-> r.line,
                      tokens |-> tokens,
                      target_ids |-> target_ids, noise |-> noise,
                      embedded |-> r.embedded, output |-> r.output,
                      locals |-> r.locals]
    /\ UNCHANGED <<built, text_field_embedder, contextualizer,
                   language_model_head, dropout>>

\* One call of get_metrics.
GetMetrics(reset) ==
    /\ built
    /\ LET r == get_metrics(Self, reset)
       IN /\ perplexity' = r.metric
          /\ last' = [op |-> "get_metrics", status |-> "ok", reset |-> reset,
                      value |-> r.value]
    /\ window' = IF reset THEN <<>> ELSE window
    /\ UNCHANGED <<built, text_field_embedder, contextualizer,
                   language_model_head, dropout>>

\* The large vocabulary is built without dropout and without initializer.
Build ==
    \E embedder \in Embedders, encoder \in Encoders,
       target_namespace \in IndexerNames, rate \in DropoutRates,
       initializer \in Initializers :
        /\ target_namespace = "bert" => rate = 0 /\ initializer = None
        /\ Construct(embedder, encoder, target_namespace, rate, initializer)

\* The first call after construction, over the whole input space.
FirstCall ==
    /\ built
    /\ last.op = "construct"
    /\ \E tokens \in TokenBatches,
          target_ids \in TargetBatches(language_model_head.out_features),
          noise \in Noises(dropout) :
           Forward(tokens, target_ids, noise)

BuildSeq ==
    \E embedder \in Embedders, encoder \in SeqEncoders, rate \in DropoutRates :
        Construct(embedder, encoder, "tokens", rate, None)

\* Any call, over the smaller input space.
Call ==
    /\ built
    /\ \E tokens \in SeqTokenBatches,
          target_ids \in SeqTargetBatches(language_model_head.out_features),
          noise \in SeqNoises(dropout) :
           Forward(tokens, target_ids, noise)

Metrics == \E reset \in BOOLEAN : GetMetrics(reset)

Next == Build \/ FirstCall \/ Metrics

Spec == Init /\ [][Next]_vars

NextSeq == BuildSeq \/ Call \/ Metrics

SpecSeq == Init /\ [][NextSeq]_vars

\* ---------------------------------------------------------------- claims
IsForward == last.op = "forward"

Succeeded == IsForward /\ last.status = "ok"

VocabSize == language_model_head.out_features

\* A TokenBatch with exactly one indexer, and its tensor.
OneTokenIndexer == Cardinality(DOMAIN last.tokens) = 1

TokenTensorOf(tokens) == tokens[CHOOSE n \in DOMAIN tokens : TRUE]

\* A TargetBatch of the data model: one indexer over a 1-D or (batch, 1)
\* tensor of ids of the vocabulary.
GoodTargets(target_ids) ==
    /\ target_ids # None
    /\ Cardinality(DOMAIN Get(target_ids)) = 1
    /\ LET x == TokenTensorOf(Get(target_ids))
       IN /\ x.shape \in {<<x.shape[1]>>, <<x.shape[1], 1>>}
          /\ \A i \in 1..Numel(x) : x.data[i] \in 0..(VocabSize - 1)

TargetBatchSize(target_ids) == TokenTensorOf(Get(target_ids)).shape[1]

\* C1: a forward call with a valid TokenBatch and no targets completes
\* without raising, returns top_probs and top_indices and no loss, and leaves
\* the perplexity accumulator (here still that of a new model) unchanged.
C1_TargetsOptional ==
    (IsForward /\ DOMAIN last.tokens = {"tokens"} /\ last.target_ids = None)
        => /\ last.status = "ok"
           /\ DOMAIN Get(last.output) = {"top_probs", "top_indices"}
           /\ perplexity = NewPerplexity

\* C2: with targets that are valid for the batch, a TokenBatch with exactly
\* one indexer, whatever its name, is accepted; one with zero or with more
\* than one indexer makes forward raise the invalid-input error (ValueError)
\* and return nothing.
C2_ExactlyOneTokenIndexer ==
    (IsForward /\ GoodTargets(last.target_ids))
        => IF OneTokenIndexer
           THEN TokenTensorOf(last.tokens).shape[1] = TargetBatchSize(last.target_ids)
                    => last.status = "ok"
           ELSE last.status = "ValueError" /\ last.output = None

\* C3: when targets are supplied and their number of indexers is not one,
\* forward raises the ValueError of line 46 before the embedder is invoked
\* and returns nothing; targets with exactly one indexer pass that check.
C3_TargetIndexerCount ==
    (IsForward /\ last.target_ids # None)
        => IF Cardinality(DOMAIN Get(last.target_ids)) # 1
           THEN /\ last.status = "ValueError"
                /\ last.line = 46
                /\ ~last.embedded
                /\ last.output = None
           ELSE last.line # 46

C3_Witness ==
    /\ IsForward
    /\ last.target_ids # None
    /\ Cardinality(DOMAIN Get(last.target_ids)) = 2
    /\ DOMAIN last.tokens = {"tokens"}
    /\ last.status = "ValueError"

\* C4: for a one-indexer TokenBatch of batch size B and a one-indexer
\* TargetBatch of first dimension B', forward raises ValueError when B' # B
\* and succeeds with a scalar loss when B' = B.
C4_BatchSizeMatch ==
    (IsForward /\ OneTokenIndexer /\ GoodTargets(last.target_ids))
        => IF TokenTensorOf(last.tokens).shape[1] # TargetBatchSize(last.target_ids)
           THEN last.status = "ValueError"
           ELSE /\ last.status = "ok"
                /\ "loss" \in DOMAIN Get(last.output)
                /\ Get(last.output)["loss"].shape = <<>>

\* C5: after every successful forward on tokens of shape (B, T), top_probs
\* and top_indices have shape exactly (B, k), k = min(vocab_size, 20); each
\* row of top_probs is non-increasing, and top_indices holds k distinct ids
\* of the vocabulary, each the id whose probability is the top_probs entry.
C5_TopKShape ==
    Succeeded
        => LET out == Get(last.output)
               B == last.tokens["tokens"].shape[1]
               k == Min2(VocabSize, 20)
               probs == Get(last.locals).probs
               p(b, j) == out["top_probs"].data[(b - 1) * k + j]
               i(b, j) == out["top_indices"].data[(b - 1) * k + j]
           IN /\ out["top_probs"].shape = <<B, k>>
              /\ out["top_indices"].shape = <<B, k>>
              /\ \A b \in 1..B :
                    /\ \A j \in 1..(k - 1) : p(b, j)[1] >= p(b, j + 1)[1]
                    /\ \A j \in 1..k :
                          /\ i(b, j) \in 0..(VocabSize - 1)
                          /\ probs.data[(b - 1) * VocabSize + i(b, j) + 1] = p(b, j)
                    /\ \A j1, j2 \in 1..k : j1 # j2 => i(b, j1) # i(b, j2)

\* C6: construction with a contextualizer whose input dimension differs from
\* the embedder's output dimension fails with ConfigurationError and yields
\* no model; otherwise it succeeds, and the head maps the contextualizer's
\* output dimension (the embedder's when there is none) to the vocabulary
\* size of the target namespace.
C6_Construction ==
    last.op = "construct"
        => IF /\ last.encoder # None
              /\ Get(last.encoder).input_dim # last.embedder.output_dim
           THEN last.status = "ConfigurationError" /\ ~built
           ELSE /\ last.status = "ok"
                /\ built
                /\ language_model_head.in_features =
                       (IF last.encoder # None
                        THEN Get(last.encoder).output_dim
                        ELSE last.embedder.output_dim)
                /\ language_model_head.out_features = Vocab[last.target_namespace]

C6_Witness ==
    /\ last.op = "construct"
    /\ built
    /\ contextualizer # None
    /\ Get(contextualizer).output_dim # text_field_embedder.output_dim
    /\ language_model_head.out_features > TopKCap

\* The perplexity of a window of losses.
WindowPerplexity(w) == IF w = <<>> THEN 0 ELSE Exp(Sum(w) \div Len(w))

\* C7: get_metrics returns the perplexity of the losses fed since the last
\* reset (or construction); with reset it leaves the accumulator in its
\* initial state, without reset it leaves the accumulator as it was.
C7_MetricsWindow ==
    [][last'.op = "get_metrics"
          => /\ last'.value = WindowPerplexity(window)
             /\ perplexity' = (IF last'.reset THEN NewPerplexity ELSE perplexity)]_vars

\* A get_metrics with reset that read a window holding observations.
C7_Witness ==
    /\ last.op = "get_metrics"
    /\ last.reset
    /\ last.value # 0
    /\ perplexity = NewPerplexity

\* C8: a successful forward with targets feeds exactly one observation, the
\* loss it returns, into the accumulator, and changes nothing else of the
\* instance.
C8_ForwardFrame ==
    [][(last'.op = "forward" /\ last'.status = "ok" /\ last'.target_ids # None)
          => /\ perplexity'.count = perplexity.count + 1
             /\ perplexity'.total_value =
                    perplexity.total_value + Get(last'.output)["loss"].data[1]
             /\ language_model_head' = language_model_head
             /\ dropout' = dropout
             /\ text_field_embedder' = text_field_embedder
             /\ contextualizer' = contextualizer]_vars

C8_Witness ==
    /\ Succeeded
    /\ perplexity.count = 2
    /\ Get(last.output)["loss"].data[1] > 0

\* The last column of a (B, T) tensor of ids.
LastColumn(x) == [b \in 1..x.shape[1] |-> x.data[b * x.shape[2]]]

\* The token tensors of the shape of x that agree with x in the last column.
SameLastColumn(x) ==
    {y \in TokenTensors : y.shape = x.shape /\ LastColumn(y) = LastColumn(x)}

\* C9: what the head is fed for batch element b is the contextual tensor's
\* entry at position sequence_length - 1 of element b, padding or not; and
\* with no contextualizer and no dropout, a batch of the same shape that
\* agrees in the last column gets the same output for the same targets.
C9_LastPosition ==
    (IsForward /\ last.locals # None)
        => LET ctx == Get(last.locals).contextual_embeddings
               final == Get(last.locals).final_embeddings
               B == ctx.shape[1]
               T == ctx.shape[2]
               D == ctx.shape[3]
           IN /\ Numel(final) = B * D
              /\ \A b \in 1..B, d \in 1..D :
                    final.data[(b - 1) * D + d] = ctx.data[((b - 1) * T + T - 1) * D + d]
              /\ (contextualizer = None /\ dropout = 0 /\ DOMAIN last.tokens = {"tokens"})
                    => \A y \in SameLastColumn(last.tokens["tokens"]) :
                          forward([Self EXCEPT !.perplexity = NewPerplexity],
                                  Dict({"tokens"}, y), last.target_ids,
                                  last.noise).output = last.output

\* A successful call on a batch whose last position is padding for some
\* element, and which another batch matches in the last column.
C9_Witness ==
    /\ Succeeded
    /\ contextualizer = None
    /\ dropout = 0
    /\ DOMAIN last.tokens = {"tokens"}
    /\ \E b \in 1..last.tokens["tokens"].shape[1] : LastColumn(last.tokens["tokens"])[b] = 0
    /\ \E y \in SameLastColumn(last.tokens["tokens"]) : y # last.tokens["tokens"]

\* C10: a forward call that raises leaves the perplexity accumulator, and
\* so every later get_metrics value, as if the call had not been made.
C10_RaiseKeepsAccumulator ==
    [][(last'.op = "forward" /\ last'.status # "ok")
          => perplexity' = perplexity /\ window' = window]_vars

C10_Witness ==
    /\ IsForward
    /\ last.status = "IndexError"
    /\ perplexity.count > 0

====
